---------------------------- MODULE Spec2Model ----------------------------
(***************************************************************************)
(* Model of async_dropx (src/src/lib.rs): the AsyncDropx<T> wrapper, its   *)
(* Deref/DerefMut access and its Drop implementation, which takes the      *)
(* inner value, calls AsyncDrop::async_drop on it and hands the returned   *)
(* future to tokio (if a runtime context is current) or to async-std.      *)
(*                                                                         *)
(* The program around the library is the one of the tests and the example: *)
(* a scope (a block or a spawned task) that constructs guards, uses them,  *)
(* and ends by a normal exit or by a panic; a supervisor that joins the    *)
(* task; backend workers that poll the spawned futures.                    *)
(***************************************************************************)
EXTENDS Naturals, Sequences, FiniteSets

VARIABLES
    featTokio,    \* cfg(feature = "tokio")
    featAsyncStd, \* cfg(feature = "async-std")
    ctx,          \* a tokio runtime context is current on the scope's thread
    mode,         \* the scope: running, closing (an inner block ends), exiting,
                  \* unwinding, returned, faulted
    locals,       \* the guards the scope holds, in declaration order
    life,         \* per guard: unborn, alive, dropping, gone
    inner,        \* per guard: the field `inner: Option<T>`; <<>> is None, <<v>> is Some(v)
    cur,          \* the guard whose Drop::drop is executing (0: none)
    dpc,          \* position inside Drop::drop
    taken,        \* the local `inner` of Drop::drop (the value moved out by take())
    fut,          \* per guard: the future returned by async_drop
    tokioTasks,   \* futures spawned on the tokio runtime
    asyncStdTasks,\* futures spawned on the async-std executor
    calls,        \* per guard: number of invocations of async_drop
    effects,      \* per guard: number of times the future's side effect happened
    stderr,       \* the lines written by eprintln!, in order
    supervisor,   \* what the joiner of the scope's task has observed
    lastRead,     \* the scope's local holding what its last read through deref returned
    derefFault,   \* an expect() of deref / deref_mut has failed
    ctxAtNew,     \* per guard, until its destructor returns: ctx when AsyncDropx::new ran
    direct,       \* per guard, until async_drop consumes it: the same resource
                  \* with the scope's reads and writes applied to it directly
    scopeDrops    \* the guards destroyed so far by the scope end in progress

vars == <<featTokio, featAsyncStd, ctx, mode, locals, life, inner, cur, dpc,
          taken, fut, tokioTasks, asyncStdTasks, calls, effects,
          stderr, supervisor, lastRead, derefFault, ctxAtNew, direct,
          scopeDrops>>

config  == <<featTokio, featAsyncStd>>
backend == <<fut, tokioTasks, asyncStdTasks, effects>>
history == <<ctxAtNew, direct, scopeDrops>>

\* ------------------------------------------------------------- bounds
NumGuards == 2
MaxCount  == 2

Guards == 1..NumGuards

\* ------------------------------------------------------------- Option<T>
None == <<>>
Some(v) == <<v>>
IsSome(o) == o # None
Unwrap(o) == o[1]

\* ------------------------------------------------------------- construction
Init ==
    /\ featTokio \in BOOLEAN
    /\ featAsyncStd \in BOOLEAN
    /\ ctx \in BOOLEAN
    /\ mode = "running"
    /\ locals = <<>>
    /\ life = [g \in Guards |-> "unborn"]
    /\ inner = [g \in Guards |-> None]
    /\ cur = 0
    /\ dpc = "idle"
    /\ taken = None
    /\ fut = [g \in Guards |-> "none"]
    /\ tokioTasks = {}
    /\ asyncStdTasks = {}
    /\ calls = [g \in Guards |-> 0]
    /\ effects = [g \in Guards |-> 0]
    /\ stderr = <<>>
    /\ supervisor = "waiting"
    /\ lastRead = 0
    /\ derefFault = FALSE
    /\ ctxAtNew = [g \in Guards |-> FALSE]
    /\ direct = [g \in Guards |-> 0]
    /\ scopeDrops = {}

\* user code of the scope runs only between destructor calls
UserRuns == mode = "running" /\ dpc = "idle"

\* mutant of NewInner: the guard is constructed disarmed
NewInnerNone(v) == None

\* AsyncDropx::new: Self { inner: Some(inner) }
NewInner(v) == Some(v)

\* `AsyncDropx::new(resource)` in the scope; v is the state of the resource
New(g, v) ==
    /\ UserRuns
    /\ life[g] = "unborn"
    /\ \A h \in Guards : h < g => life[h] # "unborn"
    /\ life' = [life EXCEPT ![g] = "alive"]
    /\ inner' = [inner EXCEPT ![g] = NewInner(v)]
    /\ locals' = Append(locals, g)
    /\ ctxAtNew' = [ctxAtNew EXCEPT ![g] = ctx]
    /\ direct' = [direct EXCEPT ![g] = v]
    /\ UNCHANGED scopeDrops
    /\ UNCHANGED <<config, ctx, mode, cur, dpc, taken, backend, calls, stderr,
                   supervisor, lastRead, derefFault>>

\* the guards user code can name
Held == {locals[i] : i \in 1..Len(locals)}

\* Deref::deref: self.inner.as_ref().expect(...)
Deref(g) ==
    /\ UserRuns
    /\ g \in Held
    /\ IF IsSome(inner[g])
         THEN /\ lastRead' = Unwrap(inner[g])
              /\ UNCHANGED <<mode, derefFault>>
         ELSE /\ derefFault' = TRUE
              /\ mode' = "unwinding"
              /\ UNCHANGED lastRead
    /\ UNCHANGED <<config, ctx, locals, life, inner, cur, dpc, taken, backend,
                   calls, stderr, supervisor, history>>

\* mutant of AsMutWrite: deref_mut hands out a reference to a copy, the
\* write never reaches the slot
AsMutWriteLost(o, v) == o

\* a write of v through the &mut T of self.inner.as_mut(): the reference
\* points into the slot, the slot holds v afterwards
AsMutWrite(o, v) == Some(v)

\* DerefMut::deref_mut: self.inner.as_mut().expect(...), then the caller's
\* write through the reference (the counter increment of the spec's scenario 6)
DerefMut(g) ==
    /\ UserRuns
    /\ g \in Held
    /\ IF IsSome(inner[g])
         THEN /\ Unwrap(inner[g]) < MaxCount
              /\ direct[g] < MaxCount
              /\ inner' = [inner EXCEPT ![g] = AsMutWrite(inner[g], Unwrap(inner[g]) + 1)]
              /\ direct' = [direct EXCEPT ![g] = direct[g] + 1]
              /\ UNCHANGED <<mode, derefFault>>
         ELSE /\ derefFault' = TRUE
              /\ mode' = "unwinding"
              /\ UNCHANGED <<inner, direct>>
    /\ UNCHANGED <<config, ctx, locals, life, cur, dpc, taken, backend, calls,
                   stderr, supervisor, lastRead, ctxAtNew, scopeDrops>>

\* the scope's thread enters a tokio runtime context (#[tokio::test],
\* #[tokio::main], a task polled by a tokio worker)
EnterContext ==
    /\ UserRuns
    /\ ~ctx
    /\ ctx' = TRUE
    /\ UNCHANGED <<config, mode, locals, life, inner, cur, dpc, taken, backend,
                   calls, stderr, supervisor, lastRead, derefFault, history>>

\* the scope's thread leaves the runtime context
LeaveContext ==
    /\ UserRuns
    /\ ctx
    /\ ctx' = FALSE
    /\ UNCHANGED <<config, mode, locals, life, inner, cur, dpc, taken, backend,
                   calls, stderr, supervisor, lastRead, derefFault, history>>

\* an inner block of the scope ends ("wrapper goes out of scope here"): its
\* locals are dropped and the scope goes on
BlockEnd ==
    /\ UserRuns
    /\ locals # <<>>
    /\ mode' = "closing"
    /\ lastRead' = 0
    /\ UNCHANGED <<config, ctx, locals, life, inner, cur, dpc, taken, backend,
                   calls, stderr, supervisor, derefFault, history>>

\* the scope (the function, the task) ends normally
ScopeExit ==
    /\ UserRuns
    /\ mode' = "exiting"
    /\ lastRead' = 0
    /\ UNCHANGED <<config, ctx, locals, life, inner, cur, dpc, taken, backend,
                   calls, stderr, supervisor, derefFault, history>>

\* panic!("Oops!") in the scope
Panic ==
    /\ UserRuns
    /\ mode' = "unwinding"
    /\ lastRead' = 0
    /\ UNCHANGED <<config, ctx, locals, life, inner, cur, dpc, taken, backend,
                   calls, stderr, supervisor, derefFault, history>>

Leaving == mode \in {"closing", "exiting", "unwinding"}

\* the end of a block, scope exit and unwinding all drop the locals in
\* reverse declaration order
ScopeDropNext ==
    /\ Leaving
    /\ dpc = "idle"
    /\ locals # <<>>
    /\ LET g == locals[Len(locals)] IN
         /\ cur' = g
         /\ life' = [life EXCEPT ![g] = "dropping"]
    /\ locals' = SubSeq(locals, 1, Len(locals) - 1)
    /\ dpc' = "take"
    /\ UNCHANGED <<config, ctx, mode, inner, taken, backend, calls, stderr,
                   supervisor, lastRead, derefFault, history>>

\* mutant of Take: the value is read (as_ref) and the slot keeps it
TakePeeks(o) == <<o, o>>

\* Option::take: the value moved out, and what the slot holds afterwards
Take(o) == <<o, None>>

\* mutant of DropTake: the armed case is not handled, the value is taken and
\* dropped without async_drop
DropTakeSkips ==
    /\ dpc = "take"
    /\ taken' = None
    /\ inner' = [inner EXCEPT ![cur] = Take(inner[cur])[2]]
    /\ dpc' = "ret"
    /\ UNCHANGED <<config, ctx, mode, locals, life, cur, backend, calls, stderr,
                   supervisor, lastRead, derefFault, history>>

\* mutant of DropTake: the destructor does nothing while the thread is
\* panicking (a std::thread::panicking() check)
DropTakeSkipsOnPanic ==
    /\ dpc = "take"
    /\ IF mode = "unwinding"
         THEN /\ dpc' = "ret"
              /\ UNCHANGED <<taken, inner>>
         ELSE /\ taken' = Take(inner[cur])[1]
              /\ inner' = [inner EXCEPT ![cur] = Take(inner[cur])[2]]
              /\ dpc' = IF IsSome(Take(inner[cur])[1]) THEN "async_drop" ELSE "ret"
    /\ UNCHANGED <<config, ctx, mode, locals, life, cur, backend, calls, stderr,
                   supervisor, lastRead, derefFault, history>>

\* mutant of DropTake: `let inner = self.inner.take().unwrap();`, an empty
\* slot panics
DropTakeUnwraps ==
    /\ dpc = "take"
    /\ taken' = inner[cur]
    /\ inner' = [inner EXCEPT ![cur] = None]
    /\ dpc' = IF IsSome(inner[cur]) THEN "async_drop" ELSE "ret"
    /\ mode' = IF IsSome(inner[cur]) THEN mode ELSE "unwinding"
    /\ UNCHANGED <<config, ctx, locals, life, cur, backend, calls, stderr,
                   supervisor, lastRead, derefFault, history>>

\* Drop::drop, `if let Some(inner) = self.inner.take()`
DropTake ==
    /\ dpc = "take"
    /\ taken' = Take(inner[cur])[1]
    /\ inner' = [inner EXCEPT ![cur] = Take(inner[cur])[2]]
    /\ dpc' = IF IsSome(Take(inner[cur])[1]) THEN "async_drop" ELSE "ret"
    /\ UNCHANGED <<config, ctx, mode, locals, life, cur, backend, calls, stderr,
                   supervisor, lastRead, derefFault, history>>

\* the first cfg block compiled in after `let _future = inner.async_drop();`
AfterAsyncDrop ==
    IF featTokio THEN "tokio" ELSE IF featAsyncStd THEN "asyncstd" ELSE "diag"

\* mutant of DropAsyncDrop: async_drop borrows the resource instead of
\* consuming it, the destructor's local still holds it beside the future
DropAsyncDropBorrows ==
    /\ dpc = "async_drop"
    /\ calls' = [calls EXCEPT ![cur] = calls[cur] + 1]
    /\ fut' = [fut EXCEPT ![cur] = "created"]
    /\ dpc' = AfterAsyncDrop
    /\ direct' = [direct EXCEPT ![cur] = 0]
    /\ UNCHANGED <<config, ctx, mode, locals, life, inner, cur, taken,
                   tokioTasks, asyncStdTasks, effects, stderr, supervisor,
                   lastRead, derefFault, ctxAtNew,
                   scopeDrops>>

\* Drop::drop, `let _future = inner.async_drop();` with the async_drop of the
\* tests: the resource is consumed, the future holds a handle to the flag
DropAsyncDrop ==
    /\ dpc = "async_drop"
    /\ calls' = [calls EXCEPT ![cur] = calls[cur] + 1]
    /\ fut' = [fut EXCEPT ![cur] = "created"]
    /\ taken' = None
    /\ dpc' = AfterAsyncDrop
    /\ direct' = [direct EXCEPT ![cur] = 0]
    /\ UNCHANGED <<config, ctx, mode, locals, life, inner, cur, tokioTasks,
                   asyncStdTasks, effects, stderr, supervisor, lastRead,
                   derefFault, ctxAtNew,
                   scopeDrops>>

\* Drop::drop, `let _future = inner.async_drop();` with an async_drop that
\* panics: no catch_unwind surrounds the call, the panic leaves Drop::drop.
\* Out of a scope that ends normally it starts unwinding; out of a
\* destructor run by unwinding it is a second panic and the process aborts.
\* The resource was moved into async_drop and is dropped by its unwinding.
DropAsyncDropPanics ==
    /\ dpc = "async_drop"
    /\ Leaving
    /\ calls' = [calls EXCEPT ![cur] = calls[cur] + 1]
    /\ taken' = None
    /\ mode' = IF mode = "unwinding" THEN "aborted" ELSE "unwinding"
    /\ life' = [life EXCEPT ![cur] = "gone"]
    /\ ctxAtNew' = [ctxAtNew EXCEPT ![cur] = FALSE]
    /\ direct' = [direct EXCEPT ![cur] = 0]
    /\ scopeDrops' = scopeDrops \cup {cur}
    /\ cur' = 0
    /\ dpc' = "idle"
    /\ UNCHANGED <<config, ctx, locals, inner, backend, stderr, supervisor,
                   lastRead, derefFault>>

\* mutant of TryCurrent: the handle is looked up when the guard is constructed
TryCurrentAtNew == ctxAtNew[cur]

\* tokio::runtime::Handle::try_current() is Ok
TryCurrent == ctx

\* mutant of AfterTokioMiss: a failed try_current goes straight to the
\* diagnostic
AfterTokioMissDiag == "diag"

\* where Drop::drop goes when the tokio block does not return
AfterTokioMiss == IF featAsyncStd THEN "asyncstd" ELSE "diag"

\* mutant of DropTokio: Handle::current() instead of try_current(), which
\* panics where no runtime context is current
DropTokioPanics ==
    /\ dpc = "tokio"
    /\ IF ctx
         THEN /\ tokioTasks' = tokioTasks \cup {cur}
              /\ fut' = [fut EXCEPT ![cur] = "spawned"]
              /\ dpc' = "ret"
              /\ UNCHANGED mode
         ELSE /\ mode' = "unwinding"
              /\ dpc' = "ret"
              /\ UNCHANGED <<tokioTasks, fut>>
    /\ UNCHANGED <<config, ctx, locals, life, inner, cur, taken,
                   asyncStdTasks, calls, effects, stderr, supervisor, lastRead,
                   derefFault, history>>

\* mutant of DropTokio: the `return` after handle.spawn is missing
DropTokioFallsThrough ==
    /\ dpc = "tokio"
    /\ IF ctx
         THEN /\ tokioTasks' = tokioTasks \cup {cur}
              /\ fut' = [fut EXCEPT ![cur] = "spawned"]
         ELSE UNCHANGED <<tokioTasks, fut>>
    /\ dpc' = IF featAsyncStd THEN "asyncstd" ELSE "diag"
    /\ UNCHANGED <<config, ctx, mode, locals, life, inner, cur, taken,
                   asyncStdTasks, calls, effects, stderr, supervisor, lastRead,
                   derefFault, history>>

\* Drop::drop, #[cfg(feature = "tokio")] block
DropTokio ==
    /\ dpc = "tokio"
    /\ IF TryCurrent
         THEN /\ tokioTasks' = tokioTasks \cup {cur}
              /\ fut' = [fut EXCEPT ![cur] = "spawned"]
              /\ dpc' = "ret"
         ELSE /\ dpc' = AfterTokioMiss
              /\ UNCHANGED <<tokioTasks, fut>>
    /\ UNCHANGED <<config, ctx, mode, locals, life, inner, cur, taken,
                   asyncStdTasks, calls, effects, stderr, supervisor, lastRead,
                   derefFault, history>>

\* mutant of DropAsyncStd: the block returns without the spawn call
DropAsyncStdForgets ==
    /\ dpc = "asyncstd"
    /\ dpc' = "ret"
    /\ UNCHANGED <<config, ctx, mode, locals, life, inner, cur, taken, backend,
                   calls, stderr, supervisor, lastRead, derefFault, history>>

\* mutant of DropAsyncStd: the block spawns only where a runtime context is
\* current, as the tokio block does
DropAsyncStdNeedsCtx ==
    /\ dpc = "asyncstd"
    /\ IF ctx
         THEN /\ asyncStdTasks' = asyncStdTasks \cup {cur}
              /\ fut' = [fut EXCEPT ![cur] = "spawned"]
              /\ dpc' = "ret"
         ELSE /\ dpc' = "diag"
              /\ UNCHANGED <<asyncStdTasks, fut>>
    /\ UNCHANGED <<config, ctx, mode, locals, life, inner, cur, taken,
                   tokioTasks, calls, effects, stderr, supervisor, lastRead,
                   derefFault, history>>

\* Drop::drop, #[cfg(feature = "async-std")] block
DropAsyncStd ==
    /\ dpc = "asyncstd"
    /\ asyncStdTasks' = asyncStdTasks \cup {cur}
    /\ fut' = [fut EXCEPT ![cur] = "spawned"]
    /\ dpc' = "ret"
    /\ UNCHANGED <<config, ctx, mode, locals, life, inner, cur, taken,
                   tokioTasks, calls, effects, stderr, supervisor, lastRead,
                   derefFault, history>>

\* mutant of DiagClass: the two cfg conditions are exchanged
DiagClassSwapped ==
    IF featTokio \/ featAsyncStd THEN "no_backend" ELSE "unreachable"

\* which of the two eprintln! lines is compiled in
DiagClass ==
    IF ~(featTokio \/ featAsyncStd) THEN "no_backend" ELSE "unreachable"

\* mutant of DropDiag: the line is written by both cfg blocks
DropDiagTwice ==
    /\ dpc = "diag"
    /\ stderr' = stderr \o << [guard |-> cur, class |-> "no_backend"],
                             [guard |-> cur, class |-> "unreachable"] >>
    /\ dpc' = "ret"
    /\ UNCHANGED <<config, ctx, mode, locals, life, inner, cur, taken, backend,
                   calls, supervisor, lastRead, derefFault, history>>

\* Drop::drop, the eprintln! reached when no block returned
DropDiag ==
    /\ dpc = "diag"
    /\ stderr' = Append(stderr, [guard |-> cur, class |-> DiagClass])
    /\ dpc' = "ret"
    /\ UNCHANGED <<config, ctx, mode, locals, life, inner, cur, taken, backend,
                   calls, supervisor, lastRead, derefFault, history>>

\* mutant of DropReturn: the destructor waits for the future it spawned
DropReturnWaits ==
    /\ dpc = "ret"
    /\ fut[cur] \notin {"spawned", "pending"}
    /\ fut' = [fut EXCEPT ![cur] = IF fut[cur] = "created" THEN "dropped" ELSE fut[cur]]
    /\ life' = [life EXCEPT ![cur] = "gone"]
    /\ ctxAtNew' = [ctxAtNew EXCEPT ![cur] = FALSE]
    /\ scopeDrops' = IF Leaving THEN scopeDrops \cup {cur} ELSE scopeDrops
    /\ UNCHANGED direct
    /\ cur' = 0
    /\ dpc' = "idle"
    /\ UNCHANGED <<config, ctx, mode, locals, inner, taken, tokioTasks,
                   asyncStdTasks, calls, effects, stderr, supervisor, lastRead,
                   derefFault>>

\* mutant of DropReturn: a future that was not spawned is kept and handed to
\* a fallback executor later
DropReturnRetries ==
    /\ dpc = "ret"
    /\ IF fut[cur] = "created"
         THEN /\ fut' = [fut EXCEPT ![cur] = "spawned"]
              /\ asyncStdTasks' = asyncStdTasks \cup {cur}
         ELSE UNCHANGED <<fut, asyncStdTasks>>
    /\ life' = [life EXCEPT ![cur] = "gone"]
    /\ ctxAtNew' = [ctxAtNew EXCEPT ![cur] = FALSE]
    /\ scopeDrops' = IF Leaving THEN scopeDrops \cup {cur} ELSE scopeDrops
    /\ UNCHANGED direct
    /\ cur' = 0
    /\ dpc' = "idle"
    /\ UNCHANGED <<config, ctx, mode, locals, inner, taken, tokioTasks,
                   calls, effects, stderr, supervisor, lastRead, derefFault>>

\* Drop::drop returns: a `_future` still owned by the body is dropped unpolled
DropReturn ==
    /\ dpc = "ret"
    /\ fut' = [fut EXCEPT ![cur] = IF fut[cur] = "created" THEN "dropped" ELSE fut[cur]]
    /\ life' = [life EXCEPT ![cur] = "gone"]
    /\ ctxAtNew' = [ctxAtNew EXCEPT ![cur] = FALSE]
    /\ scopeDrops' = IF Leaving THEN scopeDrops \cup {cur} ELSE scopeDrops
    /\ UNCHANGED direct
    /\ cur' = 0
    /\ dpc' = "idle"
    /\ UNCHANGED <<config, ctx, mode, locals, inner, taken, tokioTasks,
                   asyncStdTasks, calls, effects, stderr, supervisor, lastRead,
                   derefFault>>

\* all locals are dropped: the code after the block runs, or the scope has
\* returned, or the task has ended with the panic
ScopeFinish ==
    /\ Leaving
    /\ dpc = "idle"
    /\ locals = <<>>
    /\ mode' = CASE mode = "closing" -> "running"
                [] mode = "exiting" -> "returned"
                [] mode = "unwinding" -> "faulted"
    /\ scopeDrops' = {}
    /\ UNCHANGED <<config, ctx, locals, life, inner, cur, dpc, taken, backend,
                   calls, stderr, supervisor, lastRead, derefFault, ctxAtNew,
                   direct>>

\* the host runs the destructor of a guard a second time (unsafe code:
\* ManuallyDrop::drop or ptr::drop_in_place on a guard already dropped)
Redrop(g) ==
    /\ UserRuns
    /\ life[g] = "gone"
    /\ cur' = g
    /\ dpc' = "take"
    /\ UNCHANGED <<config, ctx, mode, locals, life, inner, taken, backend,
                   calls, stderr, supervisor, lastRead, derefFault, history>>

\* `let _ = handle.await;` the joiner sees how the task ended
Join ==
    /\ supervisor = "waiting"
    /\ mode \in {"returned", "faulted"}
    /\ supervisor' = IF mode = "faulted" THEN "fault" ELSE "ok"
    /\ UNCHANGED <<config, ctx, mode, locals, life, inner, cur, dpc, taken,
                   backend, calls, stderr, lastRead, derefFault, history>>

Spawned == tokioTasks \cup asyncStdTasks

\* a panic that leaves a destructor while the thread is already unwinding
\* aborts the process, the backend's worker threads with it
ProcessAlive == mode # "aborted"

\* a backend worker polls the future for the first time: it runs up to its
\* sleep(..).await and is pending
Poll(g) ==
    /\ ProcessAlive
    /\ g \in Spawned
    /\ fut[g] = "spawned"
    /\ fut' = [fut EXCEPT ![g] = "pending"]
    /\ UNCHANGED <<config, ctx, mode, locals, life, inner, cur, dpc, taken,
                   tokioTasks, asyncStdTasks, calls, effects, stderr,
                   supervisor, lastRead, derefFault, history>>

\* mutant of Complete: the futures complete in guard order, a future waits
\* for those of the guards declared before it
CompleteInOrder(g) ==
    /\ ProcessAlive
    /\ g \in Spawned
    /\ fut[g] = "pending"
    /\ \A h \in Spawned : h < g => fut[h] = "done"
    /\ fut' = [fut EXCEPT ![g] = "done"]
    /\ effects' = [effects EXCEPT ![g] = effects[g] + 1]
    /\ UNCHANGED <<config, ctx, mode, locals, life, inner, cur, dpc, taken,
                   tokioTasks, asyncStdTasks, calls, stderr,
                   supervisor, lastRead, derefFault, history>>

\* the worker polls it again after the sleep: flag.notify_one() /
\* sender.send(()), and the future is ready
Complete(g) ==
    /\ ProcessAlive
    /\ g \in Spawned
    /\ fut[g] = "pending"
    /\ fut' = [fut EXCEPT ![g] = "done"]
    /\ effects' = [effects EXCEPT ![g] = effects[g] + 1]
    /\ UNCHANGED <<config, ctx, mode, locals, life, inner, cur, dpc, taken,
                   tokioTasks, asyncStdTasks, calls, stderr,
                   supervisor, lastRead, derefFault, history>>

DropStep ==
    \/ DropTake
    \/ DropAsyncDrop
    \/ DropTokio
    \/ DropAsyncStd
    \/ DropDiag
    \/ DropReturn

Next ==
    \/ \E g \in Guards : New(g, 0)
    \/ \E g \in Guards : Deref(g)
    \/ \E g \in Guards : DerefMut(g)
    \/ EnterContext
    \/ LeaveContext
    \/ BlockEnd
    \/ ScopeExit
    \/ Panic
    \/ ScopeDropNext
    \/ DropTake
    \/ DropAsyncDrop
    \/ DropTokio
    \/ DropAsyncStd
    \/ DropDiag
    \/ DropReturn
    \/ ScopeFinish
    \/ Join
    \/ \E g \in Guards : Poll(g)
    \/ \E g \in Guards : Complete(g)

Spec == Init /\ [][Next]_vars

\* the program with a faulting async_drop and a host that destroys a guard
\* twice
NextFault ==
    \/ Next
    \/ DropAsyncDropPanics
    \/ \E g \in Guards : Redrop(g)

FaultSpec == Init /\ [][NextFault]_vars

\* what the scope's thread does by itself once a block or the scope ends
ThreadStep == ScopeDropNext \/ DropStep \/ ScopeFinish

\* what the backends' workers do
WorkerStep == \E g \in Guards : Poll(g) \/ Complete(g)

\* The thread of the scope keeps running its destructors and its exit, the
\* joiner keeps waiting, and the backends' workers keep polling what they
\* were handed; user code may stop making calls at any point.
Fairness ==
    /\ WF_vars(ThreadStep)
    /\ WF_vars(Join)
    /\ WF_vars(WorkerStep)

FairSpec == Spec /\ Fairness

\* ------------------------------------------------------------- claims

\* the lines of stderr written for guard g
DiagLines(g) == {i \in DOMAIN stderr : stderr[i].guard = g}

\* the destructor of g has run to its end
Destroyed(g) == life[g] = "gone"

\* a compiled-in backend takes what the scope's thread submits now
BackendReachable == (featTokio /\ ctx) \/ featAsyncStd

\* C1: every guard that was constructed and destroyed has had async_drop
\* invoked exactly once, in every backend configuration and on both exit
\* paths; no guard ever has it invoked twice, and none before destruction.
C1_ExactlyOnce ==
    \A g \in Guards :
        /\ calls[g] <= 1
        /\ Destroyed(g) => calls[g] = 1
        /\ life[g] \in {"unborn", "alive"} => calls[g] = 0

\* a guard destroyed by unwinding whose submission was rejected
C1_Witness ==
    \E g \in Guards :
        /\ Destroyed(g)
        /\ calls[g] = 1
        /\ fut[g] = "dropped"
        /\ mode = "faulted"

\* C2: when a guard is destroyed while a compiled-in backend is reachable,
\* the future of async_drop is eventually polled to completion, so that its
\* side effect has happened (once) and the guard's scope has ended.
C2_EventuallyCleaned ==
    \A g \in Guards :
        (life[g] = "dropping" /\ BackendReachable)
            ~> (Destroyed(g) /\ fut[g] = "done" /\ effects[g] = 1)

\* the scope has returned and the side effect of a guard's future is there
C2_Witness ==
    \E g \in Guards :
        /\ mode = "returned"
        /\ Destroyed(g)
        /\ fut[g] = "done"
        /\ effects[g] = 1

C4_NeverWaits ==
    dpc # "idle" => ENABLED DropStep

\* the scope has returned while one future has not been picked up by a
\* worker and another has started and not finished
C4_Witness ==
    /\ mode = "returned"
    /\ \E g, h \in Guards : fut[g] = "spawned" /\ fut[h] = "pending"

\* the scope has returned while a future has not been picked up
C4_WitnessNotPickedUp == mode = "returned" /\ \E g \in Guards : fut[g] = "spawned"

\* C5: a guard that user code can reach is armed: every guard the scope
\* holds has Some in its slot, no expect() of deref / deref_mut has failed,
\* and the slot is None only for a guard whose destructor is running or done,
\* which the scope holds no more.
C5_ArmedWhileObservable ==
    /\ ~derefFault
    /\ \A g \in Guards :
        /\ g \in Held => IsSome(inner[g])
        /\ life[g] = "alive" => g \in Held
        /\ (life[g] # "unborn" /\ ~IsSome(inner[g]))
               => (life[g] \in {"dropping", "gone"} /\ g \notin Held)

\* a read through deref has returned the value written through deref_mut,
\* while another guard has been destroyed and its slot is None
C5_Witness ==
    /\ UserRuns
    /\ MaxCount > 0
    /\ \E g \in Held : IsSome(inner[g]) /\ lastRead = Unwrap(inner[g]) /\ lastRead = MaxCount
    /\ \E h \in Guards : Destroyed(h) /\ ~IsSome(inner[h])

\* C6: with no backend compiled in, no future is ever handed to a backend or
\* polled, no side effect happens, and every destroyed guard has exactly one
\* line on stderr, of the "no backend" class.
C6_NoBackend ==
    (~featTokio /\ ~featAsyncStd) =>
        /\ Spawned = {}
        /\ \A g \in Guards :
            /\ effects[g] = 0
            /\ fut[g] \in {"none", "created", "dropped"}
            /\ Destroyed(g) =>
                   /\ fut[g] = "dropped"
                   /\ Cardinality(DiagLines(g)) = 1
                   /\ \A i \in DiagLines(g) : stderr[i].class = "no_backend"
            /\ life[g] \in {"unborn", "alive"} => DiagLines(g) = {}

\* no backend, two guards destroyed, two lines
C6_Witness ==
    /\ ~featTokio /\ ~featAsyncStd
    /\ mode = "returned"
    /\ Len(stderr) = 2
    /\ \A g \in {1, 2} : Destroyed(g)

\* C7: a future whose submission was rejected (a line was written for its
\* guard) is never handed to a backend and never polled: it is dropped when
\* the destructor returns, and its side effect never happens.
C7_RejectedNeverRuns ==
    \A g \in Guards :
        DiagLines(g) # {} =>
            /\ g \notin Spawned
            /\ fut[g] \in {"created", "dropped"}
            /\ effects[g] = 0
            /\ Destroyed(g) => fut[g] = "dropped"

\* a rejected future, dropped, long after the scope has ended
C7_Witness ==
    \E g \in Guards :
        /\ DiagLines(g) # {}
        /\ fut[g] = "dropped"
        /\ supervisor = "ok"

\* what the scope's thread can see of its own state
threadView == <<mode, locals, ctx, inner, lastRead, derefFault, calls, supervisor>>

\* C8: a rejection is not fatal and is not propagated: from the point where
\* no backend took the future, the destructor writes its line and returns,
\* changing nothing the scope can see; unwinding only ever starts in user
\* code, never in a destructor; a scope that is ending normally returns,
\* and a block that is ending gives way to the code after it.
C8_RejectionNotFatal ==
    /\ [][(dpc = "diag") => (dpc' \in {"diag", "ret"} /\ threadView' = threadView)]_vars
    /\ [][(dpc = "ret") => (dpc' \in {"ret", "idle"} /\ threadView' = threadView)]_vars
    /\ [][(mode' = "unwinding" /\ mode # "unwinding") => UserRuns]_vars
    /\ [][(mode = "exiting") => (mode' \in {"exiting", "returned"})]_vars
    /\ [][(mode = "closing") => (mode' \in {"closing", "running"})]_vars

\* the scope has left normally and the joiner saw no fault, with a rejection
\* on stderr
C8_Witness ==
    /\ supervisor = "ok"
    /\ mode = "returned"
    /\ \E g \in Guards : Destroyed(g) /\ fut[g] = "dropped" /\ DiagLines(g) # {}

\* C9: a line is written if and only if a submission is rejected, one line
\* per rejection; its class is "no backend" exactly when no feature is
\* enabled and "unreachable" exactly when one is; an accepted submission
\* writes nothing.
C9_Diagnostics ==
    /\ \A g \in Guards :
        /\ Cardinality(DiagLines(g)) <= 1
        /\ g \in Spawned => DiagLines(g) = {}
        /\ (Destroyed(g) /\ g \notin Spawned) => Cardinality(DiagLines(g)) = 1
        /\ DiagLines(g) # {} => fut[g] \in {"created", "dropped"}
    /\ \A i \in DOMAIN stderr :
        /\ stderr[i].class \in {"no_backend", "unreachable"}
        /\ stderr[i].class = "no_backend" <=> (~featTokio /\ ~featAsyncStd)
        /\ stderr[i].class = "unreachable" <=> (featTokio \/ featAsyncStd)

\* one guard accepted and one rejected with the "unreachable" line
C9_Witness ==
    /\ Len(stderr) = 1
    /\ stderr[1].class = "unreachable"
    /\ \E g, h \in Guards : Destroyed(g) /\ Destroyed(h) /\ g \in Spawned /\ fut[h] = "dropped"

\* C10: with tokio alone compiled in, a future is spawned on tokio if and
\* only if a runtime context is current on the thread that runs the
\* destructor, when it runs it (whatever the context was when the guard was
\* constructed); otherwise it is rejected with the one "unreachable" line.
C10_TokioOnly ==
    (featTokio /\ ~featAsyncStd) =>
        /\ asyncStdTasks = {}
        /\ dpc = "diag" => ~ctx
        /\ (dpc = "ret" /\ calls[cur] = 1) =>
               /\ cur \in tokioTasks <=> ctx
               /\ ctx => (fut[cur] \in {"spawned", "pending", "done"} /\ DiagLines(cur) = {})
               /\ ~ctx =>
                      /\ fut[cur] = "created"
                      /\ Cardinality(DiagLines(cur)) = 1
                      /\ \A i \in DiagLines(cur) : stderr[i].class = "unreachable"
        /\ \A g \in Guards :
            Destroyed(g) =>
                \/ g \in tokioTasks /\ DiagLines(g) = {}
                \/ g \notin tokioTasks /\ fut[g] = "dropped" /\ Cardinality(DiagLines(g)) = 1

\* a guard constructed inside a runtime whose destructor, run outside of it,
\* has written the line and is about to return
C10_Witness ==
    /\ featTokio /\ ~featAsyncStd
    /\ dpc = "ret"
    /\ ctxAtNew[cur] /\ ~ctx
    /\ cur \notin Spawned
    /\ \E i \in DiagLines(cur) : stderr[i].class = "unreachable"


\* C11: with async-std compiled in, no submission is rejected (the code asks
\* nothing of the executor, so a shut-down executor is the only thing that
\* could lose the future): whenever the tokio block has not taken the
\* future, it is spawned on async-std, whether or not a runtime context is
\* current on the caller's thread.
C11_AsyncStdAccepts ==
    featAsyncStd =>
        /\ \A g \in Guards : fut[g] # "dropped"
        /\ (dpc = "ret" /\ calls[cur] = 1) =>
               /\ cur \in Spawned
               /\ cur \in asyncStdTasks <=> ~(featTokio /\ ctx)
        /\ \A g \in Guards :
               Destroyed(g) => (g \in Spawned /\ (~featTokio => g \in asyncStdTasks))

\* async-std alone: a destructor run with no runtime context current has
\* spawned its future on async-std
C11_Witness ==
    /\ featAsyncStd /\ ~featTokio
    /\ ~ctx
    /\ dpc = "ret"
    /\ cur \in asyncStdTasks
    /\ fut[cur] = "spawned"

\* C12: with both backends compiled in, tokio is tried first and async-std
\* only after tokio's try_current failed; the future goes to tokio when a
\* context is current and to async-std otherwise, never to both; and in any
\* configuration the diagnostic is reached only when no compiled-in backend
\* took the future.
C12_PriorityOrder ==
    /\ tokioTasks \cap asyncStdTasks = {}
    /\ dpc = "diag" => (~featAsyncStd /\ ~(featTokio /\ ctx) /\ cur \notin Spawned)
    /\ (featTokio /\ featAsyncStd) =>
        /\ dpc = "asyncstd" => (~ctx /\ cur \notin tokioTasks)
        /\ (dpc = "ret" /\ calls[cur] = 1) =>
               /\ ctx => cur \in tokioTasks
               /\ ~ctx => cur \in asyncStdTasks
        /\ \A g \in Guards : Destroyed(g) => g \in Spawned

\* both compiled in: one future went to tokio, another to async-std
C12_Witness ==
    /\ featTokio /\ featAsyncStd
    /\ \E g, h \in Guards :
        /\ Destroyed(g) /\ g \in tokioTasks
        /\ Destroyed(h) /\ h \in asyncStdTasks

InSlot(g) == IF IsSome(inner[g]) THEN 1 ELSE 0
InDestructor(g) == IF cur = g /\ IsSome(taken) THEN 1 ELSE 0
InContinuation(g) == IF fut[g] \in {"created", "spawned", "pending"} THEN 1 ELSE 0
Owners(g) == InSlot(g) + InDestructor(g) + InContinuation(g)

\* C17: ownership of a resource is exclusive: it is in the guard's slot
\* while the guard is armed and in the continuation after destruction, never
\* in both (the destructor's local carries it from one to the other); once
\* the destructor has taken it the slot is empty, and it has exactly one
\* owner from construction until the continuation has completed or has been
\* dropped.
C17_ExclusiveOwnership ==
    \A g \in Guards :
        /\ Owners(g) <= 1
        /\ life[g] = "alive" => InSlot(g) = 1
        /\ fut[g] # "none" => (InSlot(g) = 0 /\ InDestructor(g) = 0)
        /\ Destroyed(g) => (InSlot(g) = 0 /\ InDestructor(g) = 0)
        /\ (life[g] # "unborn" /\ fut[g] \notin {"done", "dropped"}) => Owners(g) = 1
        /\ Owners(g) = 1 => life[g] # "unborn"

\* one guard still armed while another's resource is owned by its spawned
\* continuation
C17_Witness ==
    \E g, h \in Guards :
        /\ life[g] = "alive" /\ InSlot(g) = 1 /\ InContinuation(g) = 0
        /\ Destroyed(h) /\ InSlot(h) = 0 /\ InContinuation(h) = 1
        /\ h \in Spawned


\* C15 (the claim as stated; the code violates it): a fault of async_drop
\* inside the destructor never becomes a second fault: the process is never
\* aborted by a panic leaving Drop::drop during unwinding.
C15_NoDoubleFault == mode # "aborted"

\* the destructor is running on a guard it has already destroyed
Redropped == cur \in Guards /\ Destroyed(cur) /\ dpc # "idle"

\* what a run of the destructor can change besides its own position
dropFrame ==
    <<mode, locals, life, inner, taken, calls, tokioTasks, asyncStdTasks,
      stderr, derefFault, ctx>>

\* C16: destroying a guard whose slot is None does nothing: the destructor
\* goes from take() straight to its end, async_drop is not called, nothing is
\* spawned, nothing is written, nothing panics and the slot stays None; a
\* slot goes from Some to None only by the destructor's take(), and a slot
\* that is None after construction is never Some again.
C16_DisarmedNoOp ==
    /\ [](Redropped => (dpc \in {"take", "ret"} /\ inner[cur] = None))
    /\ [][(dpc = "take" /\ dpc' # dpc /\ ~IsSome(inner[cur])) =>
            (dpc' = "ret" /\ cur' = cur /\ UNCHANGED dropFrame)]_vars
    /\ [][(Redropped /\ dpc = "ret" /\ dpc' # dpc) =>
            (dpc' = "idle" /\ fut'[cur] = fut[cur] /\ UNCHANGED dropFrame)]_vars
    /\ [][\A g \in Guards :
            /\ (life[g] # "unborn" /\ inner[g] = None) => inner'[g] = None
            /\ (IsSome(inner[g]) /\ inner'[g] = None) =>
                   (cur = g /\ dpc = "take" /\ dpc' = "async_drop")]_vars

\* a guard whose future was spawned by its first destruction has been
\* destroyed again, and the second run has reached its end
C16_Witness ==
    /\ Redropped
    /\ dpc = "ret"
    /\ cur \in Spawned
    /\ calls[cur] = 1
    /\ stderr = <<>>
    /\ mode = "running"

\* C19: the slot is emptied by take() before async_drop is called: while
\* async_drop is about to run, after it has returned and after it has
\* panicked the slot is None, so no later run of the destructor calls
\* async_drop again, also after a fault; and the backends are looked at only
\* after async_drop has been called.
C19_DisarmedBeforeAsyncDrop ==
    /\ dpc = "async_drop" => (inner[cur] = None /\ IsSome(taken))
    /\ dpc \in {"tokio", "asyncstd", "diag"} => (calls[cur] = 1 /\ inner[cur] = None)
    /\ \A g \in Guards :
        /\ calls[g] <= 1
        /\ calls[g] = 1 => inner[g] = None
        /\ (g \in Spawned \/ DiagLines(g) # {}) => calls[g] = 1

\* the async_drop of one guard has panicked and unwinding has dropped the
\* scope's other guard after it: async_drop ran once for each, both slots are
\* empty, and only the other guard has a future
C19_Witness ==
    /\ mode = "faulted"
    /\ \E g, h \in Guards :
        /\ Destroyed(g) /\ calls[g] = 1 /\ fut[g] = "none" /\ inner[g] = None
        /\ Destroyed(h) /\ calls[h] = 1 /\ fut[h] # "none" /\ inner[h] = None


\* C13: access through the guard is transparent: the value in the guard's
\* slot is always the value the same reads and writes give when applied to
\* the resource directly (after N increments, N), a read through deref
\* returns that value, and the resource async_drop consumes carries it.
C13_Transparent ==
    /\ [](\A g \in Guards : IsSome(inner[g]) => Unwrap(inner[g]) = direct[g])
    /\ [](dpc = "async_drop" => taken = Some(direct[cur]))
    /\ [][\A g \in Guards :
            (Deref(g) /\ mode' = "running") => lastRead' = direct[g]]_vars

\* a resource incremented MaxCount times through its guard has been taken by
\* the destructor and is about to be consumed by async_drop
C13_Witness ==
    /\ dpc = "async_drop"
    /\ calls[cur] = 0
    /\ direct[cur] = MaxCount
    /\ taken = Some(MaxCount)


\* C14: two guards of one scope, destroyed when it ends with a backend
\* reachable: both futures eventually complete, each with its side effect;
\* and no future waits for another: a spawned future can always be polled and
\* a pending one can always complete, whatever the state of the others, so
\* the completions can come in either order.
C14_NoCompletionOrder ==
    /\ [](\A g \in Guards :
            /\ fut[g] = "spawned" => ENABLED Poll(g)
            /\ fut[g] = "pending" => ENABLED Complete(g))
    /\ \A h \in Guards : \A g \in 1..(h - 1) :
        ({g, h} \subseteq Held /\ Leaving /\ BackendReachable)
            ~> (/\ fut[g] = "done" /\ effects[g] = 1
                /\ fut[h] = "done" /\ effects[h] = 1)

\* one scope end has destroyed two guards; the future of the guard declared
\* first, whose destructor ran last, has completed and the other has not
C14_Witness ==
    \E g, h \in Guards :
        /\ g < h
        /\ {g, h} \subseteq scopeDrops
        /\ fut[g] = "done" /\ effects[g] = 1
        /\ fut[h] \in {"spawned", "pending"} /\ effects[h] = 0

\* the other order, for the same two guards
C14_WitnessOtherOrder ==
    \E g, h \in Guards :
        /\ g < h
        /\ {g, h} \subseteq scopeDrops
        /\ fut[h] = "done" /\ effects[h] = 1
        /\ fut[g] \in {"spawned", "pending"} /\ effects[g] = 0

=============================================================================
